---- MODULE Spec2Model ----
(***************************************************************************)
(* Federated learning with Flower: the simulation server (sim_server.py)   *)
(* and the client device (client_device.py).                               *)
(*                                                                         *)
(* Three specifications share this module:                                 *)
(*   Spec        the simulation run that sim_server.main starts: the round *)
(*               loop of the Flower server driving the FedAvg strategy     *)
(*               that main configures, and the CifarClient calls it makes; *)
(*   SpecAgg     weighted_average applied to lists of evaluation results;  *)
(*   SpecDevice  client_device.main run by several device processes.       *)
(*                                                                         *)
(* Numbers.  Accuracies are exact rationals given in percent (80 = 0.8),   *)
(* model parameters are one scalar weight; a quotient is the exact reduced *)
(* fraction <<numerator, denominator>>.  Floating-point rounding is not    *)
(* modelled.                                                               *)
(***************************************************************************)
EXTENDS Integers, Sequences, FiniteSets, TLC

VARIABLES
    pc,             \* position of the server in the run
    num_rounds,     \* ServerConfig.num_rounds of this run
    current_round,  \* the server's round counter
    parameters,     \* the global model parameters
    n_train,        \* per client: len(train_dataloader.dataset)
    n_test,         \* per client: len(test_dataloader.dataset)
    fit_call,       \* per client: the fit call of the current round
    eval_call,      \* per client: the evaluate call of the current round
    fit_failures,   \* the failures list of the current round's fit calls
    history,        \* the History the run returns
    files,          \* the metrics CSV files: file name -> rows appended
    metrics,        \* SpecAgg: the argument of weighted_average
    agg_result,     \* SpecAgg: what the call of weighted_average did
    client_id,      \* SpecDevice: per device process, the id drawn by main
    served          \* SpecDevice: number of calls served so far

simVars == <<pc, num_rounds, current_round, parameters, n_train, n_test,
             fit_call, eval_call, fit_failures, history>>
aggVars == <<metrics, agg_result>>
devVars == <<client_id, served>>
vars == <<simVars, files, aggVars, devVars>>

----------------------------------------------------------------------------
(* Program constants *)

NUM_CLIENTS == 2
LOCAL_EPOCHS == 1

(* Bounds of the model *)

\* num_rounds ranges over 1..MaxRounds (NUM_ROUNDS is 50 in sim_server.py)
MaxRounds == 2
\* longest list of evaluation results given to weighted_average
MaxLen == 2
\* random.randint(0, 1000) is drawn from 0..MaxClientId
MaxClientId == 2
\* number of device processes running client_device.main
NumDevices == 2
\* calls a device process serves before the server tells it to stop
MaxServed == 2

\* sample counts and accuracies (percent) of evaluation results
SampleCounts == {0, 100, 300}
Accuracies == {60, 80, 100}
\* sizes <<train, test>> of the partition a client holds
Partitions == {<<0, 0>>, <<50, 10>>, <<150, 40>>}
\* the weight a local training can end with
TrainedParams == {1, 2}

----------------------------------------------------------------------------
(* Python values *)

\* the empty dict {}
EmptyDict == [k \in {} |-> 0]

\* a not-a-number weight, 0/0
NaN == <<0, 0>>

RECURSIVE GCD(_, _)
GCD(a, b) == IF b = 0 THEN a ELSE GCD(b, a % b)

\* the exact quotient a / b of non-negative integers, b > 0
Frac(a, b) == LET g == GCD(a, b) IN <<a \div g, b \div g>>

\* Python's sum() over a list of numbers
RECURSIVE sum(_)
sum(xs) == IF xs = << >> THEN 0 ELSE Head(xs) + sum(Tail(xs))

----------------------------------------------------------------------------
(* sim_server.weighted_average *)

\* an unweighted mean of the accuracies
unweighted_average(ms) ==
    LET accuracies == [i \in 1..Len(ms) |-> ms[i][2].accuracy]
    IN  IF Len(ms) = 0
        THEN [kind |-> "raise", exc |-> "ZeroDivisionError"]
        ELSE [kind |-> "return",
              value |-> [accuracy |-> Frac(sum(accuracies), Len(ms))]]

\* ms is a list of <<num_examples, [accuracy |-> a]>>.  The division raises
\* ZeroDivisionError when sum(examples) is 0.
weighted_average(ms) ==
    LET accuracies == [i \in 1..Len(ms) |-> ms[i][1] * ms[i][2].accuracy]
        examples == [i \in 1..Len(ms) |-> ms[i][1]]
    IN  IF sum(examples) = 0
        THEN [kind |-> "raise", exc |-> "ZeroDivisionError"]
        ELSE [kind |-> "return",
              value |-> [accuracy |-> Frac(sum(accuracies), sum(examples))]]

----------------------------------------------------------------------------
(* Rational arithmetic on parameters; NaN is absorbing, as in IEEE 754 *)

RAdd(x, y) ==
    IF x = NaN \/ y = NaN THEN NaN
    ELSE Frac(x[1] * y[2] + y[1] * x[2], x[2] * y[2])

RScale(n, x) == IF x = NaN THEN NaN ELSE Frac(n * x[1], x[2])

\* x / n; a division by 0 of an array yields NaN entries, it does not raise
RDiv(x, n) == IF x = NaN \/ n = 0 THEN NaN ELSE Frac(x[1], x[2] * n)

----------------------------------------------------------------------------
(* Clients and their calls *)

\* the cids "0" .. str(NUM_CLIENTS - 1) of the simulation, by their int(cid)
Clients == 0..(NUM_CLIENTS - 1)

Devices == 1..NumDevices

Phases == {"train", "eval"}

\* f"client_{client_id}_{phase}_metrics.csv"
FileName(id, phase) == <<id, phase>>

FileNames == {FileName(id, ph) : id \in Clients \cup (0..MaxClientId),
                                 ph \in Phases}

NoResult == [none |-> TRUE]

Idle == [state |-> "idle", config |-> EmptyDict, params_in |-> NaN,
         result |-> NoResult, exc |-> ""]

\* a call handed to a client and not finished yet
Running(config, params) ==
    [state |-> "running", config |-> config, params_in |-> params,
     result |-> NoResult, exc |-> ""]

Finished(call) == call.state \in {"ok", "failed"}

\* the call ended by raising exc: the server sees a failure
Raised(call, exc) == [call EXCEPT !.state = "failed", !.exc = exc]

\* the call returned result
Returned(call, result) == [call EXCEPT !.state = "ok", !.result = result]

\* train(net, train_dataloader, epochs, device): the weights it leaves in
\* net, w being the weight a pass over a non-empty training set ends with
train_weights(params_in, n, epochs, w) ==
    IF epochs = 0 \/ n = 0 THEN params_in
    ELSE IF params_in = NaN THEN NaN
    ELSE <<w, 1>>

\* train(...) returns metrics_list, one entry per epoch
train_metrics_list(epochs) == [e \in 1..epochs |-> [epoch |-> e]]

\* test(...) returns metrics_list, one entry for the pass over the test set
test_metrics_list == <<[epoch |-> 1]>>

\* save_metrics_to_csv(name, metrics_list) by client process who: the rows
\* are appended to the file
save_metrics_to_csv(fs, name, metrics_list, who) ==
    [fs EXCEPT ![name] =
        @ \o [i \in 1..Len(metrics_list) |->
                 [row |-> metrics_list[i], by |-> who]]]

\* what fit returns with its metrics_list put in the metrics mapping
fit_return_with_metrics(params, n, metrics_list) ==
    [parameters |-> params, num_examples |-> n,
     metrics |-> [epochs |-> metrics_list]]

\* the tuple CifarClient.fit returns
fit_return(params, n, metrics_list) ==
    [parameters |-> params, num_examples |-> n, metrics |-> EmptyDict]

\* CifarClient.fit on call, the client's training set of size n ending with
\* weight w: the finished call
CifarClient_fit(call, n, w) ==
    IF "server_round" \notin DOMAIN call.config
       \/ "local_epochs" \notin DOMAIN call.config
    THEN Raised(call, "KeyError")
    ELSE LET epochs == call.config.local_epochs
             net == train_weights(call.params_in, n, epochs, w)
         IN  Returned(call, fit_return(net, n, train_metrics_list(epochs)))

\* the file CifarClient.fit leaves behind
CifarClient_fit_files(fs, call, id, who) ==
    IF "server_round" \notin DOMAIN call.config
       \/ "local_epochs" \notin DOMAIN call.config
    THEN fs
    ELSE save_metrics_to_csv(fs, FileName(id, "train"),
                             train_metrics_list(call.config.local_epochs), who)

\* CifarClient.evaluate on call, its test set of size n giving loss and
\* accuracy: the finished call
CifarClient_evaluate(call, n, loss, accuracy) ==
    IF "server_round" \notin DOMAIN call.config
    THEN Raised(call, "KeyError")
    ELSE Returned(call, [loss |-> loss, num_examples |-> n,
                         metrics |-> [accuracy |-> accuracy]])

\* the file CifarClient.evaluate leaves behind
CifarClient_evaluate_files(fs, call, id, who) ==
    IF "server_round" \notin DOMAIN call.config
    THEN fs
    ELSE save_metrics_to_csv(fs, FileName(id, "eval"), test_metrics_list, who)

----------------------------------------------------------------------------
(* sim_server: the strategy main configures *)

\* a round-dependent epoch count: one epoch in the first round, two afterwards
fit_config_schedule(server_round) ==
    [server_round |-> server_round,
     local_epochs |-> IF server_round <= 1 THEN LOCAL_EPOCHS
                      ELSE LOCAL_EPOCHS + 1]

\* fit_config(server_round), local_epochs left at its default LOCAL_EPOCHS
fit_config(server_round) ==
    [server_round |-> server_round, local_epochs |-> LOCAL_EPOCHS]

\* FedAvg(on_fit_config_fn=fit_config): the config of the round's fit calls
configure_fit_config(server_round) == fit_config(server_round)

\* FedAvg(...) is given no on_evaluate_config_fn: the config of the round's
\* evaluate calls is the empty dict
configure_evaluate_config(server_round) == EmptyDict

\* evaluate(server_round, parameters, config) on the server: the loss of the
\* model with these parameters on the server's test set, named by them
evaluate(server_round, params) == [loss |-> params, accuracy |-> params]

\* the clients whose call of the round returned
Succeeded(calls) == {c \in Clients : calls[c].state = "ok"}

\* the clients whose call of the round failed
Failed(calls) == {c \in Clients : calls[c].state = "failed"}

\* the server collects the round's results as soon as one call has finished
SomeFinished(calls) == \E c \in Clients : Finished(calls[c])

\* the server collects the round's results once every dispatched call has
\* returned or failed
AllFinished(calls) == \A c \in Clients : Finished(calls[c])

RECURSIVE WeightedSum(_, _)
\* sum over the clients cs of num_examples * parameters
WeightedSum(calls, cs) ==
    IF cs = {} THEN <<0, 1>>
    ELSE LET c == CHOOSE x \in cs : TRUE
         IN  RAdd(RScale(calls[c].result.num_examples,
                         calls[c].result.parameters),
                  WeightedSum(calls, cs \ {c}))

RECURSIVE TotalExamples(_, _)
TotalExamples(calls, cs) ==
    IF cs = {} THEN 0
    ELSE LET c == CHOOSE x \in cs : TRUE
         IN  calls[c].result.num_examples + TotalExamples(calls, cs \ {c})

\* an aggregation that keeps the previous parameters when some call failed
aggregate_fit_strict(old, calls) ==
    IF Succeeded(calls) = {} \/ Failed(calls) # {} THEN old
    ELSE RDiv(WeightedSum(calls, Succeeded(calls)),
              TotalExamples(calls, Succeeded(calls)))

\* FedAvg.aggregate_fit and the server's use of it: with no result the old
\* parameters are kept, else the new parameters are the weighted average
aggregate_fit(old, calls) ==
    IF Succeeded(calls) = {} THEN old
    ELSE RDiv(WeightedSum(calls, Succeeded(calls)),
              TotalExamples(calls, Succeeded(calls)))

\* a round loop that runs one round more than configured
LastRoundLate(round, n) == round > n

\* ServerConfig(num_rounds=n): round is the last round of the run
LastRound(round, n) == round >= n

\* the list of <<num_examples, metrics>> FedAvg.aggregate_evaluate hands to
\* evaluate_metrics_aggregation_fn, in the order of the client ids
RECURSIVE EvalMetrics(_, _)
EvalMetrics(calls, n) ==
    IF n = 0 THEN << >>
    ELSE LET rest == EvalMetrics(calls, n - 1)
         IN  IF calls[n - 1].state = "ok"
             THEN Append(rest, <<calls[n - 1].result.num_examples,
                                 calls[n - 1].result.metrics>>)
             ELSE rest

----------------------------------------------------------------------------
(* The simulation run: start_simulation(client_fn_gpu, NUM_CLIENTS, ...) *)

NoHistory == [losses_centralized |-> << >>, losses_distributed |-> << >>,
              metrics_distributed |-> << >>]

SimStart ==
    /\ pc = "init"
    /\ current_round = 0
    /\ parameters = <<0, 1>>
    /\ fit_call = [c \in Clients |-> Idle]
    /\ eval_call = [c \in Clients |-> Idle]
    /\ fit_failures = {}
    /\ history = NoHistory

SimIdle ==
    /\ pc = "off"
    /\ num_rounds = 0
    /\ current_round = 0
    /\ parameters = <<0, 1>>
    /\ n_train = [c \in Clients |-> 0]
    /\ n_test = [c \in Clients |-> 0]
    /\ fit_call = [c \in Clients |-> Idle]
    /\ eval_call = [c \in Clients |-> Idle]
    /\ fit_failures = {}
    /\ history = NoHistory

AggIdle == metrics = << >> /\ agg_result = [kind |-> "off"]

DevIdle == client_id = [d \in Devices |-> -1] /\ served = [d \in Devices |-> 0]

NoFiles == files = [f \in FileNames |-> << >>]

Init ==
    /\ SimStart
    /\ num_rounds \in 1..MaxRounds
    /\ \E part \in [Clients -> Partitions] :
          /\ n_train = [c \in Clients |-> part[c][1]]
          /\ n_test = [c \in Clients |-> part[c][2]]
    /\ NoFiles /\ AggIdle /\ DevIdle

\* the server evaluates the initial parameters (round 0) and starts round 1
InitialEvaluate ==
    /\ pc = "init"
    /\ history' = [history EXCEPT !.losses_centralized =
                      Append(@, <<0, evaluate(0, parameters).loss>>)]
    /\ current_round' = 1
    /\ pc' = "configure_fit"
    /\ UNCHANGED <<num_rounds, parameters, n_train, n_test, fit_call,
                   eval_call, fit_failures, files, aggVars, devVars>>

\* configure_fit and the dispatch of fit to every client
ConfigureFit ==
    /\ pc = "configure_fit"
    /\ fit_call' = [c \in Clients |->
                      Running(configure_fit_config(current_round), parameters)]
    /\ fit_failures' = {}
    /\ pc' = "await_fit"
    /\ UNCHANGED <<num_rounds, current_round, parameters, n_train, n_test,
                   eval_call, history, files, aggVars, devVars>>

\* client c runs CifarClient.fit to its end
ClientFit(c) ==
    /\ fit_call[c].state = "running"
    /\ \E w \in TrainedParams :
         fit_call' = [fit_call EXCEPT ![c] = CifarClient_fit(@, n_train[c], w)]
    /\ files' = CifarClient_fit_files(files, fit_call[c], c, c)
    /\ UNCHANGED <<pc, num_rounds, current_round, parameters, n_train, n_test,
                   eval_call, fit_failures, history, aggVars, devVars>>

\* client c's fit call fails: its worker raises, dies or times out
ClientFitFails(c) ==
    /\ fit_call[c].state = "running"
    /\ fit_call' = [fit_call EXCEPT ![c] = Raised(@, "ClientFailure")]
    /\ UNCHANGED <<pc, num_rounds, current_round, parameters, n_train, n_test,
                   eval_call, fit_failures, history, files, aggVars, devVars>>

\* the server has the round's results and failures and aggregates them
AggregateFit ==
    /\ pc = "await_fit"
    /\ AllFinished(fit_call)
    /\ fit_failures' = Failed(fit_call)
    /\ parameters' = aggregate_fit(parameters, fit_call)
    /\ pc' = "evaluate_central"
    /\ UNCHANGED <<num_rounds, current_round, n_train, n_test, fit_call,
                   eval_call, history, files, aggVars, devVars>>

\* strategy.evaluate: evaluate_fn on the new parameters
EvaluateCentral ==
    /\ pc = "evaluate_central"
    /\ history' = [history EXCEPT !.losses_centralized =
          Append(@, <<current_round, evaluate(current_round, parameters).loss>>)]
    /\ pc' = "configure_evaluate"
    /\ UNCHANGED <<num_rounds, current_round, parameters, n_train, n_test,
                   fit_call, eval_call, fit_failures, files, aggVars, devVars>>

\* configure_evaluate and the dispatch of evaluate to every client
ConfigureEvaluate ==
    /\ pc = "configure_evaluate"
    /\ eval_call' = [c \in Clients |->
          Running(configure_evaluate_config(current_round), parameters)]
    /\ pc' = "await_evaluate"
    /\ UNCHANGED <<num_rounds, current_round, parameters, n_train, n_test,
                   fit_call, fit_failures, history, files, aggVars, devVars>>

\* client c runs CifarClient.evaluate to its end
ClientEvaluate(c) ==
    /\ eval_call[c].state = "running"
    /\ \E a \in Accuracies :
         eval_call' = [eval_call EXCEPT ![c] =
                          CifarClient_evaluate(@, n_test[c], 1, a)]
    /\ files' = CifarClient_evaluate_files(files, eval_call[c], c, c)
    /\ UNCHANGED <<pc, num_rounds, current_round, parameters, n_train, n_test,
                   fit_call, fit_failures, history, aggVars, devVars>>

\* client c's evaluate call fails: its worker raises, dies or times out
ClientEvaluateFails(c) ==
    /\ eval_call[c].state = "running"
    /\ eval_call' = [eval_call EXCEPT ![c] = Raised(@, "ClientFailure")]
    /\ UNCHANGED <<pc, num_rounds, current_round, parameters, n_train, n_test,
                   fit_call, fit_failures, history, files, aggVars, devVars>>

\* the server has the round's evaluation results, aggregates them, records
\* them and goes to the next round or ends the run
AggregateEvaluate ==
    /\ pc = "await_evaluate"
    /\ AllFinished(eval_call)
    /\ LET ok == Succeeded(eval_call)
           ms == EvalMetrics(eval_call, NUM_CLIENTS)
           total == TotalExamples(eval_call, ok)
           last == LastRound(current_round, num_rounds)
       IN  IF ok = {}
           THEN /\ history' = history
                /\ pc' = IF last THEN "done" ELSE "configure_fit"
                /\ current_round' = IF last THEN current_round
                                    ELSE current_round + 1
           ELSE IF total = 0
           THEN /\ history' = history
                /\ pc' = "aborted"
                /\ current_round' = current_round
           ELSE /\ history' = [history EXCEPT
                      !.losses_distributed =
                          Append(@, <<current_round, Frac(total, total)>>),
                      !.metrics_distributed =
                          Append(@, <<current_round,
                                      weighted_average(ms).value>>)]
                /\ pc' = IF last THEN "done" ELSE "configure_fit"
                /\ current_round' = IF last THEN current_round
                                    ELSE current_round + 1
    /\ UNCHANGED <<num_rounds, parameters, n_train, n_test, fit_call,
                   eval_call, fit_failures, files, aggVars, devVars>>

Next ==
    \/ InitialEvaluate
    \/ ConfigureFit
    \/ \E c \in Clients : ClientFit(c)
    \/ \E c \in Clients : ClientFitFails(c)
    \/ AggregateFit
    \/ EvaluateCentral
    \/ ConfigureEvaluate
    \/ \E c \in Clients : ClientEvaluate(c)
    \/ \E c \in Clients : ClientEvaluateFails(c)
    \/ AggregateEvaluate

Spec == Init /\ [][Next]_vars

----------------------------------------------------------------------------
(* weighted_average applied to lists of evaluation results *)

InitAgg ==
    /\ metrics = << >>
    /\ agg_result = [kind |-> "none"]
    /\ SimIdle /\ NoFiles /\ DevIdle

\* one more client evaluation result <<n, {"accuracy": a}>> joins the list
AppendResult ==
    /\ agg_result.kind = "none"
    /\ Len(metrics) < MaxLen
    /\ \E n \in SampleCounts, a \in Accuracies :
         metrics' = Append(metrics, <<n, [accuracy |-> a]>>)
    /\ UNCHANGED <<agg_result, simVars, files, devVars>>

\* aggregate_evaluate calls evaluate_metrics_aggregation_fn on the list
CallWeightedAverage ==
    /\ agg_result.kind = "none"
    /\ Len(metrics) >= 1
    /\ agg_result' = weighted_average(metrics)
    /\ UNCHANGED <<metrics, simVars, files, devVars>>

NextAgg == AppendResult \/ CallWeightedAverage

SpecAgg == InitAgg /\ [][NextAgg]_vars

----------------------------------------------------------------------------
(* client_device.main run by the device processes of one federation *)

InitDevice ==
    /\ DevIdle
    /\ SimIdle /\ NoFiles /\ AggIdle

\* main() of device d: the client is created with a random client_id
DeviceMain(d) ==
    /\ client_id[d] = -1
    /\ \E id \in 0..MaxClientId : client_id' = [client_id EXCEPT ![d] = id]
    /\ UNCHANGED <<served, simVars, files, aggVars>>

\* device d serves a fit call of the server it is connected to
DeviceFit(d) ==
    /\ client_id[d] # -1
    /\ served[d] < MaxServed
    /\ \E r \in 1..MaxRounds :
         files' = CifarClient_fit_files(files, Running(fit_config(r), <<0, 1>>),
                                        client_id[d], d)
    /\ served' = [served EXCEPT ![d] = @ + 1]
    /\ UNCHANGED <<client_id, simVars, aggVars>>

\* device d serves an evaluate call of the server it is connected to
DeviceEvaluate(d) ==
    /\ client_id[d] # -1
    /\ served[d] < MaxServed
    /\ \E r \in 1..MaxRounds, with_round \in BOOLEAN :
         LET config == IF with_round THEN [server_round |-> r] ELSE EmptyDict
         IN  files' = CifarClient_evaluate_files(files,
                          Running(config, <<0, 1>>), client_id[d], d)
    /\ served' = [served EXCEPT ![d] = @ + 1]
    /\ UNCHANGED <<client_id, simVars, aggVars>>

NextDevice ==
    \/ \E d \in Devices : DeviceMain(d)
    \/ \E d \in Devices : DeviceFit(d)
    \/ \E d \in Devices : DeviceEvaluate(d)

SpecDevice == InitDevice /\ [][NextDevice]_vars

----------------------------------------------------------------------------
(* Properties *)

RECURSIVE SumOver(_, _)
\* the sum of f[i] over the indices in S
SumOver(f, S) ==
    IF S = {} THEN 0
    ELSE LET i == CHOOSE x \in S : TRUE IN f[i] + SumOver(f, S \ {i})

ScenarioA == <<<<100, [accuracy |-> 80]>>, <<300, [accuracy |-> 60]>>>>

\* C1: for a non-empty list of results (n_c, accuracy_c) with a positive total
\* sample count, weighted_average returns sum_c(n_c * accuracy_c) / sum_c(n_c);
\* the results (100, 0.8) and (300, 0.6) aggregate to 0.65.
C1_WeightedAccuracy ==
    LET idx == 1..Len(metrics)
        total == SumOver([i \in idx |-> metrics[i][1]], idx)
        weighted == SumOver([i \in idx |-> metrics[i][1] * metrics[i][2].accuracy],
                            idx)
    IN  (agg_result.kind # "none" /\ total > 0) =>
            /\ agg_result.kind = "return"
            /\ agg_result.value.accuracy[1] * total
                   = weighted * agg_result.value.accuracy[2]
            /\ agg_result.value.accuracy[2] > 0
            /\ (metrics = ScenarioA => agg_result.value.accuracy = <<65, 1>>)

\* C1 witness: weighted_average has returned for the results of scenario A
C1_Witness == agg_result.kind = "return" /\ metrics = ScenarioA

\* C3: when every result given to weighted_average has sample_count 0, the
\* aggregation does not raise: it returns with the accuracy reported as NaN.
C3_ZeroWeightReturnsNaN ==
    (/\ agg_result.kind # "none"
     /\ \A i \in 1..Len(metrics) : metrics[i][1] = 0)
        => /\ agg_result.kind = "return"
           /\ agg_result.value.accuracy = NaN

\* the fit calls of the round have been aggregated and are still on record
AfterAggregateFit ==
    pc \in {"evaluate_central", "configure_evaluate", "await_evaluate", "done"}

\* C2: every evaluate call dispatched in a round completes by returning
\* (loss, sample_count, {accuracy: value}) with sample_count the size of the
\* client's test set; it never ends as a failure caused by its config.
C2_EvaluateReturns ==
    \A c \in Clients :
        Finished(eval_call[c]) =>
            /\ eval_call[c].exc # "KeyError"
            /\ eval_call[c].state = "ok" =>
                   /\ eval_call[c].result.num_examples = n_test[c]
                   /\ "accuracy" \in DOMAIN eval_call[c].result.metrics

\* every fit call of the round failed or returned sample_count 0
NoValidResults ==
    \A c \in Clients :
        \/ fit_call[c].state = "failed"
        \/ fit_call[c].state = "ok" /\ fit_call[c].result.num_examples = 0

\* History marks round r as degraded
MarkedDegraded(r) ==
    \E i \in 1..Len(history.losses_centralized) :
        LET e == history.losses_centralized[i]
        IN  e[1] = r /\ Len(e) > 2

\* C4: in a round where every selected client fails or returns sample_count 0
\* from fit, the global parameters after the round equal those before it, the
\* round is recorded as degraded in History, and the run is not aborted.
C4_DegradedRoundKeepsParameters ==
    /\ [][(pc = "await_fit" /\ pc' # "await_fit" /\ NoValidResults)
             => (parameters' = parameters /\ pc' # "aborted")]_vars
    /\ [][(pc = "evaluate_central" /\ pc' # "evaluate_central" /\ NoValidResults)
             => MarkedDegraded(current_round)']_vars

\* the rounds >= 1 that History holds an entry for, in the order recorded
RoundEntries ==
    SelectSeq([i \in 1..Len(history.losses_centralized) |->
                  history.losses_centralized[i][1]],
              LAMBDA r : r >= 1)

\* the server's position within a round, later positions ranking lower
PhaseRank ==
    CASE pc = "init" -> 8
      [] pc = "configure_fit" -> 7
      [] pc = "await_fit" -> 6
      [] pc = "evaluate_central" -> 5
      [] pc = "configure_evaluate" -> 4
      [] pc = "await_evaluate" -> 3
      [] OTHER -> 0

\* the work left in the run: rounds to go, then positions to go in the round,
\* then calls still running
WorkLeft ==
    (num_rounds - current_round) * 100 + PhaseRank * 10
    + Cardinality({c \in Clients : fit_call[c].state = "running"})
    + Cardinality({c \in Clients : eval_call[c].state = "running"})

\* a step of the run is possible: the server can take its next step, or it
\* waits for calls of which each is running or has finished
CanStep ==
    \/ pc \in {"init", "configure_fit", "evaluate_central", "configure_evaluate"}
    \/ /\ pc = "await_fit"
       /\ \A c \in Clients : fit_call[c].state \in {"running", "ok", "failed"}
    \/ /\ pc = "await_evaluate"
       /\ \A c \in Clients : eval_call[c].state \in {"running", "ok", "failed"}

OnlySuccess(c) ==
    /\ fit_call[c].state = "ok"
    /\ fit_call[c].result.num_examples > 0
    /\ \A d \in Clients \ {c} : fit_call[d].state = "failed"

C7_FitReturnsEpochMetrics ==
    \A c \in Clients :
        (fit_call[c].state = "ok" /\ fit_call[c].config.local_epochs >= 1)
            => DOMAIN fit_call[c].result.metrics # {}

\* C7, amended: every successful fit call returns the updated parameters, the
\* size of the training set and an empty metrics mapping; the epoch-level
\* metrics of the call are rows of the client's train metrics file.
C7_FitReturnsEmptyMetrics ==
    \A c \in Clients :
        fit_call[c].state = "ok" =>
            /\ DOMAIN fit_call[c].result.metrics = {}
            /\ fit_call[c].result.num_examples = n_train[c]
            /\ LET rows == files[FileName(c, "train")]
                   epochs == fit_call[c].config.local_epochs
               IN  /\ Len(rows) >= epochs
                   /\ \A e \in 1..epochs :
                         rows[Len(rows) - epochs + e].row.epoch = e

\* C7 witness: a fit call over a non-empty training set has returned
C7_Witness ==
    \E c \in Clients :
        /\ fit_call[c].state = "ok"
        /\ fit_call[c].result.num_examples > 0
        /\ fit_call[c].config.local_epochs >= 1

C9_NoPartialAggregation ==
    [][(pc = "await_fit" /\ pc' # "await_fit")
          => \A c \in Clients : fit_call[c].state \in {"ok", "failed"}]_vars

\* C9 witness: a round was aggregated after one call failed and one returned
C9_Witness ==
    /\ pc = "evaluate_central"
    /\ fit_call[0].state = "failed"
    /\ fit_call[1].state = "ok"

\* C10: two distinct clients of one run have distinct client ids, so a
\* metrics file is appended to by one client only.
C10_DistinctClientIds ==
    /\ \A d, e \in Devices :
          (d # e /\ client_id[d] # -1 /\ client_id[e] # -1)
              => client_id[d] # client_id[e]
    /\ \A f \in FileNames :
          \A i, j \in 1..Len(files[f]) : files[f][i].by = files[f][j].by

====
